---- MODULE Spec2Model ----
(***************************************************************************)
(* Model of controller/api/destination/endpoint_translator.go: the         *)
(* endpointTranslator that folds Add/Remove/NoEndpoints updates into the   *)
(* set of available endpoints, filters it by topology preference, diffs    *)
(* the result against the snapshot last sent and emits Add/Remove          *)
(* messages on the client stream.                                          *)
(*                                                                         *)
(* Go maps are reference values.  availableEndpoints.Addresses and         *)
(* filteredSnapshot.Addresses are modelled by their contents plus the      *)
(* variable snapshotAliased, which is TRUE exactly when both fields hold   *)
(* the same map object, so that a write through one is seen through the    *)
(* other.                                                                  *)
(*                                                                         *)
(* Specifications:                                                         *)
(*   Spec            the translator, every send succeeds                   *)
(*   SpecDelivered   Spec with a client that applies the messages (ids)    *)
(*   SpecLossy       sends may fail                                        *)
(*   SpecUnparsable  the watch also reports an address that does not parse *)
(*   SpecWorkloads   pod-backed and external endpoints, any configuration  *)
(*   SpecWire        a client that keeps the network addresses it is sent  *)
(*   SpecZoneRegion  every update carries the preference [zone, region]    *)
(*   SpecSteps       a call runs statement by statement                    *)
(***************************************************************************)
EXTENDS Integers, Sequences, FiniteSets, TLC

\* ------------------------------------------------------------------ bounds
NumIDs == 2
MaxPrefLen == 2

\* --------------------------------------------------------------- constants
defaultWeight == 10000

LabelHostname == "kubernetes.io/hostname"
LabelZoneFailureDomainStable == "topology.kubernetes.io/zone"
LabelZoneRegionStable == "topology.kubernetes.io/region"
Wildcard == "*"

\* k8s.ControllerNSLabel, k8s.IdentityModeAnnotation, k8s.IdentityModeDefault
ControllerNSLabel == "linkerd.io/control-plane-ns"

IdentityModeAnnotation == "linkerd.io/identity-mode"

IdentityModeDefault == "default"

\* ------------------------------------------------------------ Go map idiom
EmptyMap == [k \in {} |-> ""]

\* m[k] of a Go map[string]string: the zero value when the key is absent.
Get(m, k) == IF k \in DOMAIN m THEN m[k] ELSE ""

Restrict(m, S) == [k \in S |-> m[k]]

\* for k, v := range src { dst[k] = v }
Merge(dst, src) ==
    [k \in DOMAIN dst \cup DOMAIN src |-> IF k \in DOMAIN src THEN src[k] ELSE dst[k]]

\* for k := range src { delete(dst, k) }
Delete(dst, src) == Restrict(dst, DOMAIN dst \ DOMAIN src)

\* ------------------------------------------------------------------ inputs
IDs == 1..NumIDs

Topo(zone, region) ==
    (LabelZoneFailureDomainStable :> zone) @@ (LabelZoneRegionStable :> region)

\* watcher.Address values the membership watch delivers: one in the
\* client's zone and one in another zone of the client's region.
AddressPool ==
    { [IP |-> "10.0.0.1", Port |-> 8080, TopologyLabels |-> Topo("a", "r1")],
      [IP |-> "10.0.0.2", Port |-> 8080, TopologyLabels |-> Topo("b", "r1")] }

\* An address in another region than the client's.
RemoteAddress ==
    [IP |-> "10.0.0.3", Port |-> 8080, TopologyLabels |-> Topo("c", "r2")]

\* An address whose IP does not parse.
UnparsableAddress ==
    [IP |-> "not-an-ip", Port |-> 8080, TopologyLabels |-> EmptyMap]

\* A watcher.Address literal leaves out the fields it does not set; they read
\* as the zero value: a nil Pod, an empty string.
Nil == [nil |-> TRUE]

PodOf(address) == IF "Pod" \in DOMAIN address THEN address.Pod ELSE Nil

StringOf(address, field) == IF field \in DOMAIN address THEN address[field] ELSE ""

\* A *corev1.Pod: name, namespace, service account, labels and annotations.
Pod(name, meshNS, mode) ==
    [nil |-> FALSE,
     Name |-> name,
     Namespace |-> "prod",
     ServiceAccountName |-> "web-sa",
     Labels |-> IF meshNS = "" THEN EmptyMap ELSE (ControllerNSLabel :> meshNS),
     Annotations |-> IF mode = "" THEN EmptyMap ELSE (IdentityModeAnnotation :> mode)]

\* Endpoints backed by a pod: in no mesh, in the mesh of OwnNS or in another
\* mesh, with the default identity mode, with identity disabled or without
\* the annotation; the last one has an IP that does not parse.
PodAddresses ==
    { [IP |-> "10.0.0.1", Port |-> 8080, TopologyLabels |-> Topo("a", "r1"),
       Pod |-> Pod("web-1", meshNS, mode),
       OwnerKind |-> "deployment", OwnerName |-> "web"] :
        meshNS \in { "", "linkerd", "other-mesh" },
        mode \in { "", IdentityModeDefault, "disabled" } }
    \cup
    { [IP |-> "not-an-ip", Port |-> 8080, TopologyLabels |-> Topo("a", "r1"),
       Pod |-> Pod("web-2", "linkerd", IdentityModeDefault),
       OwnerKind |-> "deployment", OwnerName |-> "web"] }

\* Endpoints without a pod: with or without a pre-resolved identity and an
\* authority override.
ExternalAddresses ==
    { [IP |-> "10.0.0.2", Port |-> 8080, TopologyLabels |-> Topo("b", "r1"),
       Identity |-> identity, AuthorityOverride |-> override] :
        identity \in { "", "ext.example.identity" },
        override \in { "", "ext.example:8080" } }

\* The ids of one update: the watch reports one endpoint at a time, or only
\* new metadata; sets of several endpoints build up over several calls.
Batches == { {} } \cup { { id } : id \in IDs }

AddressMaps(pool) == UNION { [S -> pool] : S \in Batches }

\* Remove only reads the keys of its argument.
RemovalMaps ==
    { [id \in S |-> [IP |-> "10.0.0.1", Port |-> 8080,
                     TopologyLabels |-> Topo("a", "r1")]] : S \in Batches }

\* Set-level metric labels.  Add updates carry ServiceLabels and Remove
\* updates RelabelledLabels, so that the labels differ from call to call.
ServiceLabels == ("service" :> "web")

RelabelledLabels == ("service" :> "web-v2")

Tiers == { LabelZoneFailureDomainStable, LabelZoneRegionStable, Wildcard }

\* Preference lists: duplicate-free, at most MaxPrefLen tiers.
Prefs ==
    { p \in UNION { [1..n -> Tiers] : n \in 0..MaxPrefLen } :
        \A i, j \in DOMAIN p : p[i] = p[j] => i = j }

\* Preference lists of at most one tier.
SingleTierPrefs == { p \in Prefs : Len(p) <= 1 }

\* watcher.AddressSet values passed to Add and Remove.
AddressSetsWithin(maps, labels, prefs) ==
    { [Addresses |-> a, Labels |-> labels, TopologicalPref |-> p] :
        a \in maps, p \in prefs }

AddressSetsOver(maps, labels) == AddressSetsWithin(maps, labels, Prefs)

\* Outcomes of k8sClient.CoreV1().Nodes().Get for the source node.
NodeLookups ==
    { [err |-> TRUE, Labels |-> EmptyMap],
      [err |-> FALSE,
       Labels |-> Topo("a", "r1") @@ (LabelHostname :> "node-1")
                  @@ ("kubernetes.io/os" :> "linux")],
      [err |-> FALSE, Labels |-> (LabelZoneFailureDomainStable :> "a")] }

\* ------------------------------------------------------------------- state
VARIABLES
    controllerNS,        \* et.controllerNS
    identityTrustDomain, \* et.identityTrustDomain
    enableH2Upgrade,     \* et.enableH2Upgrade
    nodeTopologyLabels,  \* et.nodeTopologyLabels
    availableEndpoints,  \* et.availableEndpoints
    filteredSnapshot,    \* et.filteredSnapshot
    snapshotAliased,     \* filteredSnapshot.Addresses is availableEndpoints.Addresses
    sent,                \* messages handed to et.stream.Send by the last call
    client,              \* ids held by a client that applies the delivered messages
    wire,                \* network addresses held by that client
    call,                \* position and locals of a call that runs step by step
    last                 \* the last call: its arguments and what it computed

vars == << controllerNS, identityTrustDomain, enableH2Upgrade,
           nodeTopologyLabels, availableEndpoints, filteredSnapshot,
           snapshotAliased, sent, client, wire, call, last >>

\* The fields set by newEndpointTranslator and never assigned afterwards.
construction ==
    << controllerNS, identityTrustDomain, enableH2Upgrade, nodeTopologyLabels >>

\* ------------------------------------------------------------ pure helpers
newEmptyAddressSet ==
    [Addresses |-> EmptyMap, Labels |-> EmptyMap, TopologicalPref |-> << >>]

getK8sNodeTopology(lookup) ==
    IF lookup.err
    THEN EmptyMap
    ELSE Restrict(lookup.Labels,
                  { k \in DOMAIN lookup.Labels :
                        \/ k = LabelHostname
                        \/ k = LabelZoneFailureDomainStable
                        \/ k = LabelZoneRegionStable })

\* addr.ParseProxyIPV4: fails unless the string is a dotted IPv4 address.
ParseProxyIPV4(ip) ==
    IF ip \in { "10.0.0.1", "10.0.0.2", "10.0.0.3" }
    THEN [err |-> FALSE, ip |-> ip]
    ELSE [err |-> TRUE, ip |-> ""]

toAddr(address) ==
    LET parsed == ParseProxyIPV4(address.IP)
    IN  IF parsed.err
        THEN [err |-> TRUE]
        ELSE [err |-> FALSE, Ip |-> parsed.ip, Port |-> address.Port]

\* k8s.GetServiceAccountAndNS: the service account and namespace of the pod.
GetServiceAccountAndNS(pod) ==
    [sa |-> pod.ServiceAccountName, ns |-> pod.Namespace]

\* k8s.GetPodLabels: the workload-derived metric labels of the endpoint, an
\* opaque result of the metadata lookup.
GetPodLabels(ownerKind, ownerName, pod) ==
    (ownerKind :> ownerName) @@ ("pod" :> pod.Name)

\* Variant of toWeightedAddr that derives the identity whatever the
\* identity-mode annotation says.
toWeightedAddrAnyMode(address) ==
    LET podControllerNS == Get(address.Pod.Labels, ControllerNSLabel)
        sans == GetServiceAccountAndNS(address.Pod)
        labels == GetPodLabels(address.OwnerKind, address.OwnerName, address.Pod)
        hint == IF enableH2Upgrade /\ podControllerNS # ""
                THEN ("ProtocolHint" :> "H2")
                ELSE EmptyMap
        id == sans.sa \o "." \o sans.ns \o ".serviceaccount.identity."
                 \o podControllerNS \o "." \o identityTrustDomain
        identity == IF /\ identityTrustDomain # ""
                       /\ podControllerNS = controllerNS
                    THEN ("TlsIdentity" :> [Name |-> id])
                    ELSE EmptyMap
        tcpAddr == toAddr(address)
    IN  IF tcpAddr.err
        THEN [err |-> TRUE]
        ELSE [err |-> FALSE,
              wa |-> [Addr |-> tcpAddr, Weight |-> defaultWeight,
                      MetricLabels |-> labels] @@ identity @@ hint]

\* Variant of toWeightedAddr that hints H2 only for pods of the translator's
\* own control plane.
toWeightedAddrHintOwnMesh(address) ==
    LET podControllerNS == Get(address.Pod.Labels, ControllerNSLabel)
        sans == GetServiceAccountAndNS(address.Pod)
        labels == GetPodLabels(address.OwnerKind, address.OwnerName, address.Pod)
        hint == IF enableH2Upgrade /\ podControllerNS = controllerNS
                THEN ("ProtocolHint" :> "H2")
                ELSE EmptyMap
        id == sans.sa \o "." \o sans.ns \o ".serviceaccount.identity."
                 \o podControllerNS \o "." \o identityTrustDomain
        identity == IF /\ identityTrustDomain # ""
                       /\ podControllerNS = controllerNS
                       /\ Get(address.Pod.Annotations, IdentityModeAnnotation)
                              = IdentityModeDefault
                    THEN ("TlsIdentity" :> [Name |-> id])
                    ELSE EmptyMap
        tcpAddr == toAddr(address)
    IN  IF tcpAddr.err
        THEN [err |-> TRUE]
        ELSE [err |-> FALSE,
              wa |-> [Addr |-> tcpAddr, Weight |-> defaultWeight,
                      MetricLabels |-> labels] @@ identity @@ hint]

\* toWeightedAddr: the pb.WeightedAddr of an endpoint backed by a pod.  A nil
\* TlsIdentity or ProtocolHint is a field the record does not have.
toWeightedAddr(address) ==
    LET podControllerNS == Get(address.Pod.Labels, ControllerNSLabel)
        sans == GetServiceAccountAndNS(address.Pod)
        labels == GetPodLabels(address.OwnerKind, address.OwnerName, address.Pod)
        hint == IF enableH2Upgrade /\ podControllerNS # ""
                THEN ("ProtocolHint" :> "H2")
                ELSE EmptyMap
        id == sans.sa \o "." \o sans.ns \o ".serviceaccount.identity."
                 \o podControllerNS \o "." \o identityTrustDomain
        identity == IF /\ identityTrustDomain # ""
                       /\ podControllerNS = controllerNS
                       /\ Get(address.Pod.Annotations, IdentityModeAnnotation)
                              = IdentityModeDefault
                    THEN ("TlsIdentity" :> [Name |-> id])
                    ELSE EmptyMap
        tcpAddr == toAddr(address)
    IN  IF tcpAddr.err
        THEN [err |-> TRUE]
        ELSE [err |-> FALSE,
              wa |-> [Addr |-> tcpAddr, Weight |-> defaultWeight,
                      MetricLabels |-> labels] @@ identity @@ hint]

\* sendClientAdd, loop body: the pb.WeightedAddr of one endpoint, or the
\* error of its translation.
translateAdd(address) ==
    IF ~PodOf(address).nil
    THEN toWeightedAddr(address)
    ELSE LET authOverride ==
                 IF StringOf(address, "AuthorityOverride") # ""
                 THEN ("AuthorityOverride" :> address.AuthorityOverride)
                 ELSE EmptyMap
             tcpAddr == toAddr(address)
             identity ==
                 IF StringOf(address, "Identity") # ""
                 THEN ("TlsIdentity" :> [Name |-> address.Identity])
                      @@ (IF enableH2Upgrade THEN ("ProtocolHint" :> "H2") ELSE EmptyMap)
                 ELSE EmptyMap
         IN  [err |-> tcpAddr.err,
              wa |-> [Addr |-> tcpAddr, Weight |-> defaultWeight]
                     @@ authOverride @@ identity]

\* Variant of filterTiers that keeps collecting over the later tiers instead
\* of returning at the first tier that matches.
RECURSIVE filterTiersUnion(_, _, _)
filterTiersUnion(avail, node, i) ==
    IF i > Len(avail.TopologicalPref)
    THEN [set |-> newEmptyAddressSet, alias |-> FALSE]
    ELSE LET pref == avail.TopologicalPref[i]
             rest == filterTiersUnion(avail, node, i + 1)
             mine == IF pref \notin DOMAIN node
                     THEN {}
                     ELSE { id \in DOMAIN avail.Addresses :
                              Get(avail.Addresses[id].TopologyLabels, pref) = node[pref] }
             all == mine \cup DOMAIN rest.set.Addresses
         IN  IF pref = Wildcard
             THEN [set |-> avail, alias |-> TRUE]
             ELSE IF rest.alias \/ all = {}
             THEN rest
             ELSE [set |-> [Addresses |-> Restrict(avail.Addresses, all),
                            Labels |-> avail.Labels,
                            TopologicalPref |-> << >>],
                   alias |-> FALSE]

\* Variant of filterTiers without the "*" case: "*" is looked up like any
\* other tier.
RECURSIVE filterTiersNoWildcard(_, _, _)
filterTiersNoWildcard(avail, node, i) ==
    IF i > Len(avail.TopologicalPref)
    THEN [set |-> newEmptyAddressSet, alias |-> FALSE]
    ELSE LET pref == avail.TopologicalPref[i]
         IN  IF pref \notin DOMAIN node
             THEN filterTiersNoWildcard(avail, node, i + 1)
             ELSE LET filtered ==
                          Restrict(avail.Addresses,
                                   { id \in DOMAIN avail.Addresses :
                                       Get(avail.Addresses[id].TopologyLabels, pref)
                                           = node[pref] })
                  IN  IF DOMAIN filtered # {}
                      THEN [set |-> [Addresses |-> filtered,
                                     Labels |-> avail.Labels,
                                     TopologicalPref |-> << >>],
                            alias |-> FALSE]
                      ELSE filterTiersNoWildcard(avail, node, i + 1)

\* Variant of filterTiers that takes a tier the client has no locality for
\* as satisfied by every endpoint.
RECURSIVE filterTiersMissingIsAll(_, _, _)
filterTiersMissingIsAll(avail, node, i) ==
    IF i > Len(avail.TopologicalPref)
    THEN [set |-> newEmptyAddressSet, alias |-> FALSE]
    ELSE LET pref == avail.TopologicalPref[i]
         IN  IF pref = Wildcard \/ pref \notin DOMAIN node
             THEN [set |-> avail, alias |-> TRUE]
             ELSE LET filtered ==
                          Restrict(avail.Addresses,
                                   { id \in DOMAIN avail.Addresses :
                                       Get(avail.Addresses[id].TopologyLabels, pref)
                                           = node[pref] })
                  IN  IF DOMAIN filtered # {}
                      THEN [set |-> [Addresses |-> filtered,
                                     Labels |-> avail.Labels,
                                     TopologicalPref |-> << >>],
                            alias |-> FALSE]
                      ELSE filterTiersMissingIsAll(avail, node, i + 1)

\* The loop body of filterAddresses from tier i on.  alias is TRUE when the
\* value returned is et.availableEndpoints itself (same Addresses map).
RECURSIVE filterTiers(_, _, _)
filterTiers(avail, node, i) ==
    IF i > Len(avail.TopologicalPref)
    THEN [set |-> newEmptyAddressSet, alias |-> FALSE]
    ELSE LET pref == avail.TopologicalPref[i]
         IN  IF pref = Wildcard
             THEN [set |-> avail, alias |-> TRUE]
             ELSE IF pref \notin DOMAIN node
             THEN filterTiers(avail, node, i + 1)
             ELSE LET srcLocality == node[pref]
                      filtered ==
                          Restrict(avail.Addresses,
                                   { id \in DOMAIN avail.Addresses :
                                       Get(avail.Addresses[id].TopologyLabels, pref)
                                           = srcLocality })
                  IN  IF DOMAIN filtered # {}
                      THEN [set |-> [Addresses |-> filtered,
                                     Labels |-> avail.Labels,
                                     TopologicalPref |-> << >>],
                            alias |-> FALSE]
                      ELSE filterTiers(avail, node, i + 1)

\* Variant of filterAddresses that returns et.availableEndpoints itself when
\* the preference is empty.
filterAddressesShared(avail, node) ==
    IF Len(avail.TopologicalPref) = 0
    THEN [set |-> avail, alias |-> TRUE]
    ELSE filterTiers(avail, node, 1)

filterAddresses(avail, node) ==
    IF Len(avail.TopologicalPref) = 0
    THEN [set |-> [Addresses |-> avail.Addresses,
                   Labels |-> avail.Labels,
                   TopologicalPref |-> << >>],
          alias |-> FALSE]
    ELSE filterTiers(avail, node, 1)

\* diffEndpoints(filtered) against the snapshot map as it reads at that point.
diffEndpoints(filtered, snapshot) ==
    [add |-> [Addresses |-> Restrict(filtered.Addresses,
                                     DOMAIN filtered.Addresses \ DOMAIN snapshot.Addresses),
              Labels |-> filtered.Labels],
     remove |-> [Addresses |-> Restrict(snapshot.Addresses,
                                        DOMAIN snapshot.Addresses \ DOMAIN filtered.Addresses),
                 Labels |-> filtered.Labels]]

\* Variant of sendClientAdd that gives up the whole batch when one address
\* fails to translate.
sendClientAddAbortOnError(set, ok) ==
    LET good == { id \in DOMAIN set.Addresses : ~translateAdd(set.Addresses[id]).err }
        kept == IF good = DOMAIN set.Addresses THEN good ELSE {}
    IN  [type |-> "Add",
         Addrs |-> [id \in kept |-> translateAdd(set.Addresses[id]).wa],
         MetricLabels |-> set.Labels,
         ok |-> ok]

\* The pb.Update built by sendClientAdd: addresses that fail to translate
\* are skipped.  Addrs is keyed by endpoint id to keep track of which
\* endpoint each entry came from; the wire message is the range.
sendClientAdd(set, ok) ==
    LET good == { id \in DOMAIN set.Addresses : ~translateAdd(set.Addresses[id]).err }
    IN  [type |-> "Add",
         Addrs |-> [id \in good |-> translateAdd(set.Addresses[id]).wa],
         MetricLabels |-> set.Labels,
         ok |-> ok]

sendClientRemove(set, ok) ==
    LET good == { id \in DOMAIN set.Addresses : ~toAddr(set.Addresses[id]).err }
    IN  [type |-> "Remove",
         Addrs |-> [id \in good |-> toAddr(set.Addresses[id])],
         ok |-> ok]

\* The client's endpoint ids after a message: Add inserts its ids, Remove
\* deletes its ids, NoEndpoints clears; a message whose send failed is lost.
Apply(held, msg) ==
    IF ~msg.ok THEN held
    ELSE IF msg.type = "Add" THEN held \cup DOMAIN msg.Addrs
    ELSE IF msg.type = "Remove" THEN held \ DOMAIN msg.Addrs
    ELSE {}

RECURSIVE ApplyAll(_, _)
ApplyAll(held, msgs) ==
    IF msgs = << >> THEN held
    ELSE ApplyAll(Apply(held, Head(msgs)), Tail(msgs))

\* The client's network addresses after a message: Add inserts the address
\* of each pb.WeightedAddr, Remove deletes each address it names, NoEndpoints
\* clears; a message whose send failed is lost.
ApplyWire(addrs, msg) ==
    IF ~msg.ok THEN addrs
    ELSE IF msg.type = "Add"
    THEN addrs \cup { msg.Addrs[id].Addr : id \in DOMAIN msg.Addrs }
    ELSE IF msg.type = "Remove"
    THEN addrs \ { msg.Addrs[id] : id \in DOMAIN msg.Addrs }
    ELSE {}

RECURSIVE ApplyAllWire(_, _)
ApplyAllWire(addrs, msgs) ==
    IF msgs = << >> THEN addrs
    ELSE ApplyAllWire(ApplyWire(addrs, Head(msgs)), Tail(msgs))

\* Variant of adoptMetadata that keeps the previous preference.
adoptMetadataKeepPref(avail, set) ==
    [Addresses |-> avail.Addresses,
     Labels |-> set.Labels,
     TopologicalPref |-> avail.TopologicalPref]

\* sendFilteredUpdate, first statement: the addresses map is kept, labels and
\* preference are taken from the update.
adoptMetadata(avail, set) ==
    [Addresses |-> avail.Addresses,
     Labels |-> set.Labels,
     TopologicalPref |-> set.TopologicalPref]

\* Variant of replaceSnapshot that merges the filtered set into the snapshot.
replaceSnapshotMerging(snapshot, filtered) ==
    [filtered EXCEPT !.Addresses = Merge(snapshot.Addresses, filtered.Addresses)]

\* sendFilteredUpdate, last statement: et.filteredSnapshot = filtered.
replaceSnapshot(snapshot, filtered) == filtered

\* Variant of clearAddresses that leaves the map in place.
clearAddressesKeep(set) == set

\* NoEndpoints: the Addresses field is pointed at a new empty map.
clearAddresses(set) == [set EXCEPT !.Addresses = EmptyMap]

\* ----------------------------------------------------------------- actions
newEndpointTranslator(ns, trustDomain, h2Upgrade, lookup) ==
    /\ controllerNS = ns
    /\ identityTrustDomain = trustDomain
    /\ enableH2Upgrade = h2Upgrade
    /\ nodeTopologyLabels = getK8sNodeTopology(lookup)
    /\ availableEndpoints = newEmptyAddressSet
    /\ filteredSnapshot = newEmptyAddressSet
    /\ snapshotAliased = FALSE
    /\ sent = << >>
    /\ client = {}
    /\ wire = {}
    /\ call = [pc |-> "idle"]
    /\ last = [op |-> "new", err |-> lookup.err]

\* The control plane the translator of Spec belongs to.
OwnNS == "linkerd"

TrustDomain == "cluster.local"

Init ==
    \E lookup \in NodeLookups : newEndpointTranslator(OwnNS, TrustDomain, TRUE, lookup)

\* Variant of sendFilteredUpdate that returns when the Add send fails: the
\* Remove message is not sent and the snapshot is not replaced.
sendFilteredUpdateStopOnError(op, set, merged, okAdd, okRemove) ==
    LET avail == adoptMetadata([availableEndpoints EXCEPT !.Addresses = merged], set)
        snapshot == IF snapshotAliased
                    THEN [filteredSnapshot EXCEPT !.Addresses = merged]
                    ELSE filteredSnapshot
        res == filterAddresses(avail, nodeTopologyLabels)
        filtered == res.set
        diff == diffEndpoints(filtered, snapshot)
        hasAdd == DOMAIN diff.add.Addresses # {}
        hasRemove == DOMAIN diff.remove.Addresses # {}
        stop == hasAdd /\ ~okAdd
        msgs == (IF hasAdd THEN << sendClientAdd(diff.add, okAdd) >> ELSE << >>)
                \o (IF hasRemove /\ ~stop
                    THEN << sendClientRemove(diff.remove, okRemove) >> ELSE << >>)
    IN  /\ IF hasAdd THEN TRUE ELSE okAdd
        /\ IF hasRemove THEN TRUE ELSE okRemove
        /\ availableEndpoints' = avail
        /\ filteredSnapshot' = IF stop THEN snapshot ELSE replaceSnapshot(snapshot, filtered)
        /\ snapshotAliased' = IF stop THEN snapshotAliased ELSE res.alias
        /\ sent' = msgs
        /\ last' = [op |-> op,
                    set |-> [Labels |-> set.Labels,
                             TopologicalPref |-> set.TopologicalPref],
                    changed |-> merged # availableEndpoints.Addresses,
                    prior |-> DOMAIN filteredSnapshot.Addresses,
                    atDiff |-> DOMAIN snapshot.Addresses,
                    filtered |-> DOMAIN filtered.Addresses,
                    toAdd |-> DOMAIN diff.add.Addresses,
                    toRemove |-> DOMAIN diff.remove.Addresses,
                    removed |-> diff.remove.Addresses]
        /\ UNCHANGED construction

\* sendFilteredUpdate(set), entered with the addresses map already updated to
\* merged.  The snapshot reads as merged when it shares that map.
sendFilteredUpdate(op, set, merged, okAdd, okRemove) ==
    LET avail == adoptMetadata([availableEndpoints EXCEPT !.Addresses = merged], set)
        snapshot == IF snapshotAliased
                    THEN [filteredSnapshot EXCEPT !.Addresses = merged]
                    ELSE filteredSnapshot
        res == filterAddresses(avail, nodeTopologyLabels)
        filtered == res.set
        diff == diffEndpoints(filtered, snapshot)
        hasAdd == DOMAIN diff.add.Addresses # {}
        hasRemove == DOMAIN diff.remove.Addresses # {}
        msgs == (IF hasAdd THEN << sendClientAdd(diff.add, okAdd) >> ELSE << >>)
                \o (IF hasRemove THEN << sendClientRemove(diff.remove, okRemove) >> ELSE << >>)
    IN  /\ IF hasAdd THEN TRUE ELSE okAdd          \* no send, no result
        /\ IF hasRemove THEN TRUE ELSE okRemove
        /\ availableEndpoints' = avail
        /\ filteredSnapshot' = replaceSnapshot(snapshot, filtered)
        /\ snapshotAliased' = res.alias
        /\ sent' = msgs
        /\ last' = [op |-> op,
                    set |-> [Labels |-> set.Labels,
                             TopologicalPref |-> set.TopologicalPref],
                    changed |-> merged # availableEndpoints.Addresses,
                    prior |-> DOMAIN filteredSnapshot.Addresses,
                    atDiff |-> DOMAIN snapshot.Addresses,
                    filtered |-> DOMAIN filtered.Addresses,
                    toAdd |-> DOMAIN diff.add.Addresses,
                    toRemove |-> DOMAIN diff.remove.Addresses,
                    removed |-> diff.remove.Addresses]
        /\ UNCHANGED construction

\* Results of et.stream.Send: the stream delivers every message.
SendResults == { TRUE }

\* Add(set) for a set out of sets.
AddCalls(sets, results) ==
    \E set \in sets, okAdd \in results, okRemove \in results :
        sendFilteredUpdate("Add", set,
                           Merge(availableEndpoints.Addresses, set.Addresses),
                           okAdd, okRemove)

\* Remove(set) for a set out of sets.
RemoveCalls(sets, results) ==
    \E set \in sets, okAdd \in results, okRemove \in results :
        sendFilteredUpdate("Remove", set,
                           Delete(availableEndpoints.Addresses, set.Addresses),
                           okAdd, okRemove)

AddOver(pool, results) ==
    AddCalls(AddressSetsOver(AddressMaps(pool), ServiceLabels), results)

RemoveOver(results) ==
    RemoveCalls(AddressSetsOver(RemovalMaps, RelabelledLabels), results)

NoEndpointsOver(results) ==
    \E exists \in BOOLEAN, ok \in results :
        LET u == [type |-> "NoEndpoints", Exists |-> exists, ok |-> ok]
        IN  /\ availableEndpoints' = clearAddresses(availableEndpoints)
            /\ filteredSnapshot' = clearAddresses(filteredSnapshot)
            /\ snapshotAliased' = FALSE
            /\ sent' = << u >>
            /\ last' = [op |-> "NoEndpoints",
                        exists |-> exists,
                        prior |-> DOMAIN filteredSnapshot.Addresses]
            /\ UNCHANGED construction

\* The translator on its own: no client is attached to the stream.
Add == AddOver(AddressPool, SendResults) /\ UNCHANGED << client, wire, call >>

Remove == RemoveOver(SendResults) /\ UNCHANGED << client, wire, call >>

NoEndpoints == NoEndpointsOver(SendResults) /\ UNCHANGED << client, wire, call >>

Next == Add \/ Remove \/ NoEndpoints

Spec == Init /\ [][Next]_vars

\* The translator with a client at the other end of the stream that applies
\* the messages of each call in the order they were sent.
Deliver == client' = ApplyAll(client, sent') /\ UNCHANGED << wire, call >>

AddDelivered == AddOver(AddressPool, SendResults) /\ Deliver

RemoveDelivered == RemoveOver(SendResults) /\ Deliver

NoEndpointsDelivered == NoEndpointsOver(SendResults) /\ Deliver

NextDelivered == AddDelivered \/ RemoveDelivered \/ NoEndpointsDelivered

SpecDelivered == Init /\ [][NextDelivered]_vars

\* The translator on a stream whose sends may fail: et.stream.Send returns an
\* error for any of the messages.  The order of tiers plays no part in
\* sending, so the updates carry preference lists of at most one tier.
FailingSendResults == BOOLEAN

AddLossy ==
    /\ AddCalls(AddressSetsWithin(AddressMaps(AddressPool), ServiceLabels,
                                  SingleTierPrefs),
                FailingSendResults)
    /\ UNCHANGED << client, wire, call >>

RemoveLossy ==
    /\ RemoveCalls(AddressSetsWithin(RemovalMaps, RelabelledLabels, SingleTierPrefs),
                   FailingSendResults)
    /\ UNCHANGED << client, wire, call >>

NoEndpointsLossy ==
    NoEndpointsOver(FailingSendResults) /\ UNCHANGED << client, wire, call >>

NextLossy == AddLossy \/ RemoveLossy \/ NoEndpointsLossy

SpecLossy == Init /\ [][NextLossy]_vars

\* The translator fed by a watch that also reports an endpoint whose IP does
\* not parse.  Updates carry preference lists of at most one tier.
AddUnparsable ==
    /\ AddCalls(AddressSetsWithin(AddressMaps(AddressPool \cup { UnparsableAddress }),
                                  ServiceLabels, SingleTierPrefs),
                SendResults)
    /\ UNCHANGED << client, wire, call >>

RemoveUnparsable ==
    /\ RemoveCalls(AddressSetsWithin(RemovalMaps, RelabelledLabels, SingleTierPrefs),
                   SendResults)
    /\ UNCHANGED << client, wire, call >>

NoEndpointsUnparsable ==
    NoEndpointsOver(SendResults) /\ UNCHANGED << client, wire, call >>

NextUnparsable == AddUnparsable \/ RemoveUnparsable \/ NoEndpointsUnparsable

SpecUnparsable == Init /\ [][NextUnparsable]_vars

\* The translator of any control plane, with or without a trust domain and
\* H2 upgrade, fed one endpoint at a time under one id, backed by a pod or
\* not, with an empty preference list.
InitWorkloads ==
    \E ns \in { OwnNS, "other-mesh" }, trustDomain \in { "", TrustDomain },
       h2Upgrade \in BOOLEAN, lookup \in NodeLookups :
        newEndpointTranslator(ns, trustDomain, h2Upgrade, lookup)

WorkloadSets ==
    { [Addresses |-> (1 :> address), Labels |-> ServiceLabels,
       TopologicalPref |-> << >>] :
        address \in PodAddresses \cup ExternalAddresses }

AddWorkload ==
    AddCalls(WorkloadSets, SendResults) /\ UNCHANGED << client, wire, call >>

RemoveWorkload ==
    /\ RemoveCalls({ [Addresses |-> (1 :> Nil), Labels |-> RelabelledLabels,
                      TopologicalPref |-> << >>] },
                   SendResults)
    /\ UNCHANGED << client, wire, call >>

NoEndpointsWorkload ==
    NoEndpointsOver(SendResults) /\ UNCHANGED << client, wire, call >>

NextWorkloads == AddWorkload \/ RemoveWorkload \/ NoEndpointsWorkload

SpecWorkloads == InitWorkloads /\ [][NextWorkloads]_vars

\* The translator with a client that keeps the network addresses it was
\* sent.  No update carries "*", so the snapshot never shares the map of
\* availableEndpoints.
NoWildcardPrefs == { p \in SingleTierPrefs : \A i \in DOMAIN p : p[i] # Wildcard }

DeliverWire == wire' = ApplyAllWire(wire, sent') /\ UNCHANGED << client, call >>

AddWire ==
    /\ AddCalls(AddressSetsWithin(AddressMaps(AddressPool), ServiceLabels,
                                  NoWildcardPrefs),
                SendResults)
    /\ DeliverWire

RemoveWire ==
    /\ RemoveCalls(AddressSetsWithin(RemovalMaps, RelabelledLabels, NoWildcardPrefs),
                   SendResults)
    /\ DeliverWire

NoEndpointsWire == NoEndpointsOver(SendResults) /\ DeliverWire

NextWire == AddWire \/ RemoveWire \/ NoEndpointsWire

SpecWire == Init /\ [][NextWire]_vars

\* The translator of a client whose node has a zone and a region, fed
\* updates that all carry the preference [zone, region]; the watch reports
\* endpoints in the client's zone, in another zone of its region and in
\* another region.
ZoneThenRegion ==
    { << LabelZoneFailureDomainStable, LabelZoneRegionStable >> }

InitZoneRegion ==
    \E lookup \in { l \in NodeLookups :
                       /\ LabelZoneFailureDomainStable \in DOMAIN l.Labels
                       /\ LabelZoneRegionStable \in DOMAIN l.Labels } :
        newEndpointTranslator(OwnNS, TrustDomain, TRUE, lookup)

AddZoneRegion ==
    /\ AddCalls(AddressSetsWithin(AddressMaps(AddressPool \cup { RemoteAddress }),
                                  ServiceLabels, ZoneThenRegion),
                SendResults)
    /\ UNCHANGED << client, wire, call >>

RemoveZoneRegion ==
    /\ RemoveCalls(AddressSetsWithin(RemovalMaps, RelabelledLabels, ZoneThenRegion),
                   SendResults)
    /\ UNCHANGED << client, wire, call >>

NoEndpointsZoneRegion ==
    NoEndpointsOver(SendResults) /\ UNCHANGED << client, wire, call >>

NextZoneRegion == AddZoneRegion \/ RemoveZoneRegion \/ NoEndpointsZoneRegion

SpecZoneRegion == InitZoneRegion /\ [][NextZoneRegion]_vars

\* The translator statement by statement.  A call is entered when no other
\* call is running (calls on one translator are serialized by the caller)
\* and goes through: merge or delete and adoption of the metadata, filter
\* and diff, the Add send, the Remove send, the replacement of the snapshot.
\* call holds the position and the locals filtered, diffAdd and diffRemove;
\* sent collects the messages of the running call.  A snapshot that shares
\* the map of availableEndpoints changes with it in the first step.
EnterCall(op, set, merged) ==
    /\ call.pc = "idle"
    /\ availableEndpoints' =
          adoptMetadata([availableEndpoints EXCEPT !.Addresses = merged], set)
    /\ filteredSnapshot' = IF snapshotAliased
                           THEN [filteredSnapshot EXCEPT !.Addresses = merged]
                           ELSE filteredSnapshot
    /\ sent' = << >>
    /\ call' = [pc |-> "filter",
                op |-> op,
                set |-> [Labels |-> set.Labels,
                         TopologicalPref |-> set.TopologicalPref],
                changed |-> merged # availableEndpoints.Addresses,
                prior |-> DOMAIN filteredSnapshot.Addresses]
    /\ UNCHANGED << construction, snapshotAliased, client, wire, last >>

EnterAdd ==
    \E set \in AddressSetsWithin(AddressMaps(AddressPool), ServiceLabels,
                                 SingleTierPrefs) :
        EnterCall("Add", set, Merge(availableEndpoints.Addresses, set.Addresses))

EnterRemove ==
    \E set \in AddressSetsWithin(RemovalMaps, RelabelledLabels, SingleTierPrefs) :
        EnterCall("Remove", set, Delete(availableEndpoints.Addresses, set.Addresses))

\* Variant of FilterAndDiff that stores the filtered set in the snapshot as
\* soon as the diff is taken, before the sends.
FilterAndDiffReplacingEarly ==
    /\ call.pc = "filter"
    /\ LET res == filterAddresses(availableEndpoints, nodeTopologyLabels)
           diff == diffEndpoints(res.set, filteredSnapshot)
       IN  /\ call' = [pc |-> "sendAdd",
                       filtered |-> res.set,
                       alias |-> res.alias,
                       diffAdd |-> diff.add,
                       diffRemove |-> diff.remove,
                       snapshot |-> filteredSnapshot] @@ call
           /\ filteredSnapshot' = replaceSnapshot(filteredSnapshot, res.set)
    /\ UNCHANGED << construction, availableEndpoints,
                    snapshotAliased, sent, client, wire, last >>

\* filtered := et.filterAddresses(); diffAdd, diffRemove := et.diffEndpoints(filtered)
FilterAndDiff ==
    /\ call.pc = "filter"
    /\ LET res == filterAddresses(availableEndpoints, nodeTopologyLabels)
           diff == diffEndpoints(res.set, filteredSnapshot)
       IN  call' = [pc |-> "sendAdd",
                    filtered |-> res.set,
                    alias |-> res.alias,
                    diffAdd |-> diff.add,
                    diffRemove |-> diff.remove,
                    snapshot |-> filteredSnapshot] @@ call
    /\ UNCHANGED << construction, availableEndpoints, filteredSnapshot,
                    snapshotAliased, sent, client, wire, last >>

\* if len(diffAdd.Addresses) > 0 { et.sendClientAdd(diffAdd) }
SendAddStep ==
    /\ call.pc = "sendAdd"
    /\ \E ok \in SendResults :
          sent' = IF DOMAIN call.diffAdd.Addresses # {}
                  THEN Append(sent, sendClientAdd(call.diffAdd, ok))
                  ELSE sent
    /\ call' = [call EXCEPT !.pc = "sendRemove"]
    /\ UNCHANGED << construction, availableEndpoints, filteredSnapshot,
                    snapshotAliased, client, wire, last >>

\* if len(diffRemove.Addresses) > 0 { et.sendClientRemove(diffRemove) }
SendRemoveStep ==
    /\ call.pc = "sendRemove"
    /\ \E ok \in SendResults :
          sent' = IF DOMAIN call.diffRemove.Addresses # {}
                  THEN Append(sent, sendClientRemove(call.diffRemove, ok))
                  ELSE sent
    /\ call' = [call EXCEPT !.pc = "replace"]
    /\ UNCHANGED << construction, availableEndpoints, filteredSnapshot,
                    snapshotAliased, client, wire, last >>

\* et.filteredSnapshot = filtered, and the call returns.
ReplaceSnapshotStep ==
    /\ call.pc = "replace"
    /\ filteredSnapshot' = replaceSnapshot(filteredSnapshot, call.filtered)
    /\ snapshotAliased' = call.alias
    /\ last' = [op |-> call.op,
                set |-> call.set,
                changed |-> call.changed,
                prior |-> call.prior,
                atDiff |-> DOMAIN call.snapshot.Addresses,
                filtered |-> DOMAIN call.filtered.Addresses,
                toAdd |-> DOMAIN call.diffAdd.Addresses,
                toRemove |-> DOMAIN call.diffRemove.Addresses,
                removed |-> call.diffRemove.Addresses]
    /\ call' = [pc |-> "idle"]
    /\ UNCHANGED << construction, availableEndpoints, sent, client, wire >>

NoEndpointsStep ==
    /\ call.pc = "idle"
    /\ NoEndpointsOver(SendResults)
    /\ UNCHANGED << client, wire, call >>

NextSteps ==
    \/ EnterAdd
    \/ EnterRemove
    \/ FilterAndDiff
    \/ SendAddStep
    \/ SendRemoveStep
    \/ ReplaceSnapshotStep
    \/ NoEndpointsStep

SpecSteps == Init /\ [][NextSteps]_vars

\* ------------------------------------------------- vocabulary of the claims
IsUpdate == last.op \in { "Add", "Remove" }

Available == DOMAIN availableEndpoints.Addresses

Snapshot == DOMAIN filteredSnapshot.Addresses

Pref == availableEndpoints.TopologicalPref

\* The ids filterAddresses yields for the current availableEndpoints.
FilteredNow ==
    DOMAIN filterAddresses(availableEndpoints, nodeTopologyLabels).set.Addresses

\* Endpoint id has the client's locality value for tier.
SameLocality(id, tier) ==
    /\ tier \in DOMAIN nodeTopologyLabels
    /\ tier \in DOMAIN availableEndpoints.Addresses[id].TopologyLabels
    /\ availableEndpoints.Addresses[id].TopologyLabels[tier] = nodeTopologyLabels[tier]

MatchesOf(tier) == { id \in Available : SameLocality(id, tier) }

\* Positions of the preference list whose tier the client has a value for
\* and at least one available endpoint shares.
MatchingTiers == { i \in DOMAIN Pref : MatchesOf(Pref[i]) # {} }

WildcardTiers == { i \in DOMAIN Pref : Pref[i] = Wildcard }

Least(S) == CHOOSE i \in S : \A j \in S : i <= j

MsgsOfType(t) == { i \in DOMAIN sent : sent[i].type = t }

\* The ids the Add messages and the Remove messages of the last call name.
AddIds == UNION { DOMAIN sent[i].Addrs : i \in MsgsOfType("Add") }

RemoveIds == UNION { DOMAIN sent[i].Addrs : i \in MsgsOfType("Remove") }

\* The ids of the snapshot whose endpoint is not in the client's zone.
SnapshotOutsideZone ==
    { id \in Snapshot :
        Get(filteredSnapshot.Addresses[id].TopologyLabels, LabelZoneFailureDomainStable)
            # Get(nodeTopologyLabels, LabelZoneFailureDomainStable) }

\* The endpoints of the Add message the last call sent, as pairs of the
\* watcher.Address and the pb.WeightedAddr made of it.
Announced ==
    UNION { { [address |-> availableEndpoints.Addresses[id],
               wa |-> sent[i].Addrs[id]] : id \in DOMAIN sent[i].Addrs } :
            i \in MsgsOfType("Add") }

HasPod(address) == "Pod" \in DOMAIN address

\* The control plane a pod belongs to, "" for none.
MeshOf(address) ==
    IF ControllerNSLabel \in DOMAIN address.Pod.Labels
    THEN address.Pod.Labels[ControllerNSLabel]
    ELSE ""

DefaultIdentityMode(address) ==
    /\ IdentityModeAnnotation \in DOMAIN address.Pod.Annotations
    /\ address.Pod.Annotations[IdentityModeAnnotation] = IdentityModeDefault

\* The ids of an id -> watcher.Address map whose IP is a dotted IPv4 address.
ParsableIn(addresses) ==
    { id \in DOMAIN addresses : addresses[id].IP # UnparsableAddress.IP }

\* --------------------------------------------------------------------- C1
\* C1 (snapshot convergence): at the completion of every call the ids of
\* filteredSnapshot are exactly the ids filterAddresses yields for the
\* then-current availableEndpoints.
SnapshotConvergence == Snapshot = FilteredNow

SnapshotConvergenceWitness ==
    /\ IsUpdate
    /\ Snapshot # {}
    /\ Snapshot # Available
    /\ last.toRemove # {}

\* --------------------------------------------------------------------- C2
\* C2 (client view consistency): with every send succeeding and every
\* address translating, the ids the client holds after applying the emitted
\* messages in order equal the ids of filterAddresses(availableEndpoints) at
\* the completion of every call.  Stated for SpecDelivered, in which the
\* client applies every message.
ClientViewConsistency == client = FilteredNow

\* --------------------------------------------------------------------- C3
\* C3 (diff minimality): in every Add or Remove call toAdd has exactly the
\* ids of the freshly filtered set that are not in the snapshot the previous
\* operation left, toRemove exactly the ids of that snapshot that are not in
\* the filtered set, and no id is in both.
DiffMinimality ==
    IsUpdate =>
        /\ last.toAdd = last.filtered \ last.prior
        /\ last.toRemove = last.prior \ last.filtered
        /\ last.toAdd \cap last.toRemove = {}

\* --------------------------------------------------------------------- C4
\* C4 as stated (tier precedence): for a non-empty preference list the
\* filtered set is exactly the endpoints matching the first tier for which
\* the client has a locality value that some available endpoint shares.
TierPrecedenceAsStated ==
    (IsUpdate /\ Pref # << >> /\ MatchingTiers # {}) =>
        last.filtered = MatchesOf(Pref[Least(MatchingTiers)])

\* C4 amended: the same, provided no "*" tier comes before that first
\* matching tier in the list.
TierPrecedence ==
    (/\ IsUpdate
     /\ Pref # << >>
     /\ MatchingTiers # {}
     /\ \A w \in WildcardTiers : w > Least(MatchingTiers)) =>
        last.filtered = MatchesOf(Pref[Least(MatchingTiers)])

\* The zone tier wins although more endpoints match the later region tier.
TierPrecedenceWitness ==
    /\ IsUpdate
    /\ Pref = << LabelZoneFailureDomainStable, LabelZoneRegionStable >>
    /\ last.filtered = MatchesOf(LabelZoneFailureDomainStable)
    /\ last.filtered # {}
    /\ MatchesOf(LabelZoneRegionStable) \ last.filtered # {}

\* --------------------------------------------------------------------- C5
\* C5 (wildcard short-circuit): when "*" is reached before any earlier tier
\* produced a match, the filtered set is the entire available set, whatever
\* tiers follow the "*".
WildcardShortCircuit ==
    (/\ IsUpdate
     /\ WildcardTiers # {}
     /\ \A i \in MatchingTiers : i > Least(WildcardTiers)) =>
        last.filtered = Available

\* "*" is reached after a zone tier that matches nothing.
WildcardShortCircuitWitness ==
    /\ IsUpdate
    /\ Pref = << LabelZoneFailureDomainStable, Wildcard >>
    /\ LabelZoneFailureDomainStable \in DOMAIN nodeTopologyLabels
    /\ MatchesOf(LabelZoneFailureDomainStable) = {}
    /\ Available # {}
    /\ last.filtered = Available

\* --------------------------------------------------------------------- C6
\* C6 (no tier match): in an Add or Remove with a non-empty preference that
\* has no "*" and no matching tier, the filtered set is empty; if the prior
\* snapshot was non-empty the call emits no Add message and exactly one
\* Remove message covering every id of the prior snapshot, and the snapshot
\* becomes empty.  Stated for the case the claim describes, in which
\* availableEndpoints is non-empty.
NoTierMatchRemovesAll ==
    (/\ IsUpdate
     /\ Pref # << >>
     /\ WildcardTiers = {}
     /\ MatchingTiers = {}
     /\ Available # {}) =>
        /\ last.filtered = {}
        /\ Snapshot = {}
        /\ last.prior # {} =>
              /\ Len(sent) = 1
              /\ sent[1].type = "Remove"
              /\ last.prior \subseteq DOMAIN sent[1].Addrs

\* --------------------------------------------------------------------- C7
\* C7 (NoEndpoints reset): NoEndpoints(exists) leaves both address maps
\* empty and emits exactly one NoEndpoints message carrying exists, and no
\* Add or Remove message.
NoEndpointsReset ==
    last.op = "NoEndpoints" =>
        /\ Available = {}
        /\ Snapshot = {}
        /\ Len(sent) = 1
        /\ sent[1].type = "NoEndpoints"
        /\ sent[1].Exists = last.exists

NoEndpointsResetWitness ==
    /\ last.op = "NoEndpoints"
    /\ last.exists
    /\ last.prior # {}
    /\ sent[1].Exists

\* --------------------------------------------------------------------- C8
\* C8 (emission follows the diff): every Add or Remove call emits at most
\* one Add and at most one Remove message, the Add message iff toAdd is
\* non-empty and the Remove message iff toRemove is non-empty; a call that
\* leaves the filtered id set unchanged emits nothing.
EmissionFollowsDiff ==
    IsUpdate =>
        /\ Cardinality(MsgsOfType("Add")) <= 1
        /\ Cardinality(MsgsOfType("Remove")) <= 1
        /\ MsgsOfType("Add") # {} <=> last.toAdd # {}
        /\ MsgsOfType("Remove") # {} <=> last.toRemove # {}
        /\ MsgsOfType("NoEndpoints") = {}
        /\ last.filtered = last.prior => sent = << >>

\* --------------------------------------------------------------------- C9
\* C9 (metadata is last-update-wins and adopted before filtering): after
\* every Add(set) or Remove(set) the labels and preference of
\* availableEndpoints are those of set, the filter of that call ran with
\* set's preference, and a call that changes no address emits exactly the
\* messages that move the snapshot from the old filtered view to the new.
MetadataLastUpdateWins ==
    IsUpdate =>
        /\ availableEndpoints.Labels = last.set.Labels
        /\ availableEndpoints.TopologicalPref = last.set.TopologicalPref
        /\ last.filtered =
              DOMAIN filterAddresses(
                        [Addresses |-> availableEndpoints.Addresses,
                         Labels |-> last.set.Labels,
                         TopologicalPref |-> last.set.TopologicalPref],
                        nodeTopologyLabels).set.Addresses
        /\ ~last.changed =>
              /\ Snapshot = last.filtered
              /\ MsgsOfType("Add") # {} <=> last.filtered \ last.prior # {}
              /\ MsgsOfType("Remove") # {} <=> last.prior \ last.filtered # {}
              /\ \A i \in MsgsOfType("Add") :
                    DOMAIN sent[i].Addrs = last.filtered \ last.prior
              /\ \A i \in MsgsOfType("Remove") :
                    DOMAIN sent[i].Addrs = last.prior \ last.filtered

\* A Remove that removes nothing but carries other labels and another
\* preference than the call before, and shrinks the client's view.
MetadataLastUpdateWinsWitness ==
    /\ last.op = "Remove"
    /\ ~last.changed
    /\ availableEndpoints.Labels = RelabelledLabels
    /\ Pref # << >>
    /\ Cardinality(Available) >= 2
    /\ last.prior = Available
    /\ last.toRemove # {}
    /\ MsgsOfType("Remove") # {}

\* -------------------------------------------------------------------- C10
\* C10 (empty preference means no filtering): with an empty preference the
\* filtered set has exactly the ids of availableEndpoints, whatever the
\* topologies, and it is a copy: it does not share the map of
\* availableEndpoints, so later changes to that map do not show in it.
EmptyPrefNoFiltering ==
    (IsUpdate /\ Pref = << >>) =>
        /\ last.filtered = Available
        /\ Snapshot = Available
        /\ ~snapshotAliased

\* No filtering for a client without any topology although no endpoint
\* shares a locality with it.
EmptyPrefNoFilteringWitness ==
    /\ IsUpdate
    /\ Pref = << >>
    /\ nodeTopologyLabels = EmptyMap
    /\ Cardinality(Available) >= 2
    /\ last.filtered = Available

\* -------------------------------------------------------------------- C11
\* C11 (send failure is non-fatal and not retried): on a stream whose sends
\* may fail, every Add or Remove call leaves availableEndpoints with the
\* metadata of its argument and filteredSnapshot equal to the filter of
\* availableEndpoints, whatever the sends returned; the Add message is
\* attempted exactly once when toAdd is non-empty and the Remove message
\* exactly once when toRemove is non-empty, also after a failed Add send; no
\* Add message names an id the snapshot already held before the call, so an
\* endpoint whose Add send failed is not emitted again while it stays in the
\* filtered view.  NoEndpoints clears both maps and attempts its message
\* once, whatever the send returns.
SendFailureNotFatal ==
    /\ IsUpdate =>
          /\ filteredSnapshot =
                 filterAddresses(availableEndpoints, nodeTopologyLabels).set
          /\ availableEndpoints.Labels = last.set.Labels
          /\ availableEndpoints.TopologicalPref = last.set.TopologicalPref
          /\ Cardinality(MsgsOfType("Add")) = (IF last.toAdd # {} THEN 1 ELSE 0)
          /\ Cardinality(MsgsOfType("Remove")) = (IF last.toRemove # {} THEN 1 ELSE 0)
          /\ Len(sent) = Cardinality(MsgsOfType("Add")) + Cardinality(MsgsOfType("Remove"))
          /\ \A i \in MsgsOfType("Add") : DOMAIN sent[i].Addrs \cap last.prior = {}
    /\ last.op = "NoEndpoints" =>
          /\ Available = {}
          /\ Snapshot = {}
          /\ Len(sent) = 1

\* The Add send of a call failed, its Remove message was sent all the same
\* and the snapshot holds the endpoints of the failed Add.
SendFailureNotFatalWitness ==
    /\ IsUpdate
    /\ Len(sent) = 2
    /\ sent[1].type = "Add"
    /\ ~sent[1].ok
    /\ sent[2].type = "Remove"
    /\ DOMAIN sent[1].Addrs # {}
    /\ DOMAIN sent[1].Addrs \subseteq Snapshot

\* -------------------------------------------------------------------- C12
\* C12 (per-endpoint translation failure is isolated): in every Add or
\* Remove call the Add message carries exactly the endpoints of toAdd whose
\* address parses, each under its own IP and port, and the Remove message
\* exactly the endpoints of toRemove whose address parses; every id of
\* toAdd, skipped or not, is in filteredSnapshot after the call, and no Add
\* message names an id that was in the snapshot before the call, so a
\* skipped endpoint is not emitted later while it stays in the filtered view.
TranslationFailureIsolated ==
    IsUpdate =>
        /\ \A i \in MsgsOfType("Add") :
              /\ DOMAIN sent[i].Addrs =
                     last.toAdd \cap ParsableIn(availableEndpoints.Addresses)
              /\ \A id \in DOMAIN sent[i].Addrs :
                     /\ sent[i].Addrs[id].Addr.Ip = availableEndpoints.Addresses[id].IP
                     /\ sent[i].Addrs[id].Addr.Port = availableEndpoints.Addresses[id].Port
              /\ DOMAIN sent[i].Addrs \cap last.prior = {}
        /\ \A i \in MsgsOfType("Remove") :
              /\ DOMAIN sent[i].Addrs = ParsableIn(last.removed)
              /\ \A id \in DOMAIN sent[i].Addrs :
                     /\ sent[i].Addrs[id].Ip = last.removed[id].IP
                     /\ sent[i].Addrs[id].Port = last.removed[id].Port
        /\ last.toAdd \subseteq Snapshot
        /\ MsgsOfType("Add") # {} <=> last.toAdd # {}
        /\ MsgsOfType("Remove") # {} <=> last.toRemove # {}

\* One endpoint of toAdd does not parse and is left out of the Add message,
\* another one is emitted, and both are in the snapshot.
TranslationFailureIsolatedWitness ==
    /\ IsUpdate
    /\ \E i \in MsgsOfType("Add") :
          /\ DOMAIN sent[i].Addrs # {}
          /\ last.toAdd \ DOMAIN sent[i].Addrs # {}
    /\ last.toAdd \subseteq Snapshot

\* -------------------------------------------------------------------- C13
\* C13 (topology lookup failure degrades): when the node lookup fails the
\* translator is created all the same, with an empty node topology and both
\* sets empty; with an empty node topology every update with a non-empty
\* preference without "*" yields an empty filtered view and no Add message,
\* and every update with an empty preference or one containing "*" yields
\* the full available set.
LookupFailureDegrades ==
    /\ (last.op = "new" /\ last.err) =>
          /\ nodeTopologyLabels = EmptyMap
          /\ availableEndpoints = newEmptyAddressSet
          /\ filteredSnapshot = newEmptyAddressSet
    /\ (IsUpdate /\ nodeTopologyLabels = EmptyMap) =>
          /\ (Pref # << >> /\ WildcardTiers = {}) =>
                /\ last.filtered = {}
                /\ Snapshot = {}
                /\ MsgsOfType("Add") = {}
          /\ (Pref = << >> \/ WildcardTiers # {}) =>
                /\ last.filtered = Available
                /\ Snapshot = Available

\* Without a node topology a zone preference empties the view of a client
\* that had been given endpoints.
LookupFailureDegradesWitness ==
    /\ IsUpdate
    /\ nodeTopologyLabels = EmptyMap
    /\ Pref # << >>
    /\ WildcardTiers = {}
    /\ Available # {}
    /\ last.prior # {}
    /\ Snapshot = {}
    /\ MsgsOfType("Remove") # {}

\* -------------------------------------------------------------------- C14
\* C14 (identity gating): every endpoint backed by a pod is announced with
\* a derived identity if and only if the trust domain is non-empty, the
\* pod's control plane namespace is the translator's own and the pod's
\* identity-mode annotation has the default value; the identity is
\* <service-account>.<namespace>.serviceaccount.identity.<controller-ns>.
\* <trust-domain>; with or without identity the weight is the default
\* weight and the labels are the pod labels of the endpoint.
IdentityGating ==
    \A e \in Announced :
        HasPod(e.address) =>
            /\ "TlsIdentity" \in DOMAIN e.wa <=>
                  /\ identityTrustDomain # ""
                  /\ MeshOf(e.address) = controllerNS
                  /\ DefaultIdentityMode(e.address)
            /\ "TlsIdentity" \in DOMAIN e.wa =>
                  e.wa.TlsIdentity.Name =
                      e.address.Pod.ServiceAccountName \o "."
                      \o e.address.Pod.Namespace \o ".serviceaccount.identity."
                      \o controllerNS \o "." \o identityTrustDomain
            /\ e.wa.Weight = defaultWeight
            /\ e.wa.MetricLabels =
                  GetPodLabels(e.address.OwnerKind, e.address.OwnerName, e.address.Pod)

\* A pod of the translator's own control plane with the default identity
\* mode is announced with its identity.
IdentityGatingWitness ==
    \E e \in Announced :
        /\ HasPod(e.address)
        /\ controllerNS = OwnNS
        /\ "TlsIdentity" \in DOMAIN e.wa
        /\ e.wa.TlsIdentity.Name =
              "web-sa.prod.serviceaccount.identity.linkerd.cluster.local"
        /\ e.wa.Weight = defaultWeight

\* -------------------------------------------------------------------- C15
\* C15 (H2 hint is independent of identity): an endpoint backed by a pod is
\* announced with the H2 hint if and only if upgrade is enabled and the pod
\* has a non-empty control plane namespace label, whether or not that is
\* the translator's namespace and whether or not an identity is derived; an
\* endpoint without a pod is announced with the hint if and only if upgrade
\* is enabled and it has a non-empty pre-resolved identity, and that
\* identity is attached unchanged.
HintIndependentOfIdentity ==
    \A e \in Announced :
        /\ HasPod(e.address) =>
              ("ProtocolHint" \in DOMAIN e.wa <=>
                  enableH2Upgrade /\ MeshOf(e.address) # "")
        /\ ~HasPod(e.address) =>
              /\ "ProtocolHint" \in DOMAIN e.wa <=>
                    enableH2Upgrade /\ e.address.Identity # ""
              /\ "TlsIdentity" \in DOMAIN e.wa <=> e.address.Identity # ""
              /\ "TlsIdentity" \in DOMAIN e.wa =>
                    e.wa.TlsIdentity.Name = e.address.Identity
        /\ "ProtocolHint" \in DOMAIN e.wa => e.wa.ProtocolHint = "H2"

\* A pod of another control plane is announced with the hint and without
\* an identity.
HintIndependentOfIdentityWitness ==
    \E e \in Announced :
        /\ HasPod(e.address)
        /\ MeshOf(e.address) \notin { "", controllerNS }
        /\ identityTrustDomain # ""
        /\ DefaultIdentityMode(e.address)
        /\ "ProtocolHint" \in DOMAIN e.wa
        /\ "TlsIdentity" \notin DOMAIN e.wa

\* -------------------------------------------------------------------- C16
\* C16 (the merge step does not change the snapshot): in every Add or Remove
\* call the ids filteredSnapshot holds when diffEndpoints reads it, after
\* the merge or deletion on availableEndpoints, are the ids it held when the
\* previous operation completed.
SnapshotUntouchedByMerge == IsUpdate => last.atDiff = last.prior

\* -------------------------------------------------------------------- C17
\* C17 (Remove messages name only addresses the client holds): every
\* network address of a Remove message a call emits is held by the client
\* at that point, that is, it was sent in an Add message of an earlier call
\* or of this call and has not been removed since.  Stated for SpecWire, in
\* which the client applies every message.
RemoveNamesHeldAddresses ==
    [][ \A i \in DOMAIN sent' :
          sent'[i].type = "Remove" =>
              { sent'[i].Addrs[id] : id \in DOMAIN sent'[i].Addrs }
                  \subseteq ApplyAllWire(wire, SubSeq(sent', 1, i - 1)) ]_vars

\* -------------------------------------------------------------------- C18
\* C18 (fallback to a coarser tier and recovery): with preference [zone,
\* region] on every call and a client that has both values, a Remove after
\* which no available endpoint is in the client's zone, while one was
\* before, emits an Add message for exactly the available endpoints in the
\* client's region and a Remove message for the deleted endpoints; an Add
\* after which an available endpoint is in the client's zone, while none
\* was before, emits an Add message for the zone-matching endpoints and a
\* Remove message for every endpoint of the prior snapshot that is not in
\* the client's zone.
FallbackAndRecovery ==
    [][ /\ (/\ last'.op = "Remove"
            /\ MatchesOf(LabelZoneFailureDomainStable) # {}
            /\ MatchesOf(LabelZoneFailureDomainStable)' = {}) =>
              /\ AddIds' = MatchesOf(LabelZoneRegionStable)'
              /\ RemoveIds' = Available \ Available'
              /\ MsgsOfType("Remove")' # {}
        /\ (/\ last'.op = "Add"
            /\ MatchesOf(LabelZoneFailureDomainStable) = {}
            /\ MatchesOf(LabelZoneFailureDomainStable)' # {}) =>
              /\ AddIds' = MatchesOf(LabelZoneFailureDomainStable)'
              /\ RemoveIds' = SnapshotOutsideZone ]_vars

\* -------------------------------------------------------------------- C19
\* C19 (order of steps inside one update): in SpecSteps, which runs a call
\* statement by statement, nothing is sent before the diff is taken; when
\* the Remove send is reached the Add message, if toAdd is non-empty, has
\* been sent and nothing else; in every call that emits both messages the
\* Add message comes first; until the replacement step filteredSnapshot is
\* the snapshot the diff was taken against, and after it the filtered set;
\* and a call starts from the snapshot the replacement step of the call
\* before it left, so none of its messages is emitted before that step.
StepOrder ==
    /\ call.pc = "filter" => sent = << >>
    /\ call.pc = "sendAdd" => sent = << >>
    /\ call.pc = "sendRemove" =>
          /\ Len(sent) = (IF DOMAIN call.diffAdd.Addresses # {} THEN 1 ELSE 0)
          /\ MsgsOfType("Remove") = {}
    /\ \A i \in MsgsOfType("Add"), j \in MsgsOfType("Remove") : i < j
    /\ call.pc \in { "sendAdd", "sendRemove", "replace" } =>
          filteredSnapshot = call.snapshot
    /\ (call.pc = "idle" /\ IsUpdate) =>
          filteredSnapshot = filterAddresses(availableEndpoints, nodeTopologyLabels).set
    /\ (call.pc # "idle" /\ IsUpdate) => call.prior = last.filtered

\* Both messages of a call have been sent, the Add message first, and the
\* snapshot is still the old one.
StepOrderWitness ==
    /\ call.pc = "replace"
    /\ Len(sent) = 2
    /\ sent[1].type = "Add"
    /\ sent[2].type = "Remove"
    /\ filteredSnapshot # call.filtered
    /\ DOMAIN filteredSnapshot.Addresses # DOMAIN call.filtered.Addresses

====
